---------------------------- MODULE Spec2Model ----------------------------
(***************************************************************************)
(* TUBECRAFT generator service: the HTTP surface of src/generator/main.py, *)
(* the background pipeline generate_episode_content, and the validators of *)
(* src/generator/models.py.                                                *)
(*                                                                         *)
(* The four service clients (services/ollama_service, tts_service,         *)
(* video_service, database_service) are imported by main.py but are not    *)
(* part of the source tree; they are modelled from their contracts in the  *)
(* specification (sections 4.4 to 4.7).  Every awaited call of a client    *)
(* either returns or raises; a persistence call that raises writes nothing.*)
(***************************************************************************)
EXTENDS Integers, Sequences, FiniteSets, TLC

VARIABLES
    db,        \* database_service: episode id -> stored Episode row
    task,      \* per episode: the background task's position and locals
    calls,     \* per episode: the client calls the task has issued, in order
    files,     \* artifacts produced on storage by the Speech/Video clients
    clock,     \* logical time, read by the persistence service for timestamps
    resp,      \* the HTTP response sent by the latest step, with its request:
               \*   id: the episode id asked for or created; known: whether
               \*   that id was a stored episode's when the request arrived;
               \*   raised: whether the handler's persistence call raised
    status,    \* service_status: the handler's position and its status dict
    arg,       \* pure-function specifications: the input under validation
    ret,       \* pure-function specifications: the result of the validation
    timers,    \* core/logging.py: the uses of the operation timer
    log        \* core/logging.py: the records the timers logged, in order

vars == <<db, task, calls, files, clock, resp, status, arg, ret, timers, log>>

-----------------------------------------------------------------------------
(* Bounds of the model *)

\* Episodes created in one behaviour.
MaxEpisodes == 2

\* Optional values: None is the empty tuple, Some(x) a one-element tuple.
None == <<>>
Some(x) == <<x>>

Min(S) == CHOOSE x \in S : \A y \in S : x <= y
Max(S) == CHOOSE x \in S : \A y \in S : x >= y

-----------------------------------------------------------------------------
(* Python exceptions and str(e) *)

\* An exception is modelled by its args tuple.  str(e) of an exception built
\* without arguments (asyncio.TimeoutError(), Exception()) is the empty
\* string; with one argument it is that argument's text.
str_e(e) == IF Len(e) = 0 THEN "" ELSE e[1]

\* What a failing call of operation op may raise: an exception with no
\* message (a timeout of the client), or one whose message names the
\* operation.
Raises(op) == { <<>>, <<op>> }

\* What a failing write of the background task to the database may raise:
\* the driver's error, which carries a message.
WriteRaises(op) == { <<op>> }

-----------------------------------------------------------------------------
(* models.py: GenerationStatus *)

DRAFT == "draft"
QUEUED == "queued"
GENERATING_SCRIPT == "generating_script"
GENERATING_AUDIO == "generating_audio"
GENERATING_VIDEO == "generating_video"
COMPLETED == "completed"
FAILED == "failed"
CANCELLED == "cancelled"

GenerationStatus ==
    { DRAFT, QUEUED, GENERATING_SCRIPT, GENERATING_AUDIO, GENERATING_VIDEO,
      COMPLETED, FAILED, CANCELLED }

-----------------------------------------------------------------------------
(* models.py: validation results *)

\* A validator either returns the (possibly normalised) value or raises
\* ValueError, which pydantic reports as a validation error of the model.
Valid(v) == [ok |-> TRUE, value |-> v]
Invalid == [ok |-> FALSE, value |-> None]

-----------------------------------------------------------------------------
(* models.py: EpisodeRequest.title *)

\* A title is a sequence of characters.  str.strip() without arguments
\* removes leading and trailing whitespace and keeps inner whitespace.
Whitespace == { " ", "\t", "\n" }

strip(v) ==
    LET keep == { i \in 1..Len(v) : v[i] \notin Whitespace }
    IN  IF keep = {} THEN <<>> ELSE SubSeq(v, Min(keep), Max(keep))

\* Field(..., min_length=1, max_length=500)
TitleMinLength == 1
TitleMaxLength == 500

\* The length constraints of the field, applied by pydantic to the value as
\* received, before the class's own validators run.
title_field_constraints(v) ==
    Len(v) >= TitleMinLength /\ Len(v) <= TitleMaxLength

\* Variant: the check is made on the trimmed title, the title is returned
\* as received.
title_must_not_be_empty_returns_v(v) ==
    IF strip(v) = <<>> THEN Invalid ELSE Valid(v)

\* @validator('title'): `if not v.strip(): raise ValueError; return v.strip()`
title_must_not_be_empty(v) ==
    IF strip(v) = <<>> THEN Invalid ELSE Valid(strip(v))

\* Validation of EpisodeRequest.title: the field's constraints, then the
\* validator, which sees the value only if the constraints accepted it.
EpisodeRequest_title(v) ==
    IF ~title_field_constraints(v) THEN Invalid ELSE title_must_not_be_empty(v)

-----------------------------------------------------------------------------
(* models.py: ScriptSection and Script *)

\* A Script input is a record [title, total_duration_seconds, sections];
\* sections is the sequence of the sections' duration_seconds.

\* ScriptSection.duration_seconds: Field(..., ge=1)
SectionMinDuration == 1

\* `abs(v - calculated_duration) > 30`
DurationTolerance == 30

abs(x) == IF x < 0 THEN -x ELSE x

RECURSIVE sum(_)
sum(seq) == IF seq = <<>> THEN 0 ELSE seq[1] + sum(Tail(seq))

\* The fields of Script in their order of definition, which is the order in
\* which pydantic validates them.
ScriptFields == << "title", "total_duration_seconds", "sections", "metadata" >>

\* @validator('sections')
sections_must_not_be_empty(v) ==
    IF v = <<>> THEN Invalid ELSE Valid(v)

\* @validator('total_duration_seconds'); `values` holds the fields validated
\* before this one.
validate_total_duration(v, values) ==
    IF "sections" \in DOMAIN values
    THEN IF abs(v - sum(values["sections"])) > DurationTolerance
         THEN Invalid
         ELSE Valid(v)
    ELSE Valid(v)

\* Validation of one field: its type and constraints, then its validator.
Script_field(name, input, values) ==
    CASE name = "title" -> Valid(input.title)
      [] name = "total_duration_seconds" ->
            validate_total_duration(input.total_duration_seconds, values)
      [] name = "sections" ->
            IF \E i \in 1..Len(input.sections) :
                    input.sections[i] < SectionMinDuration
            THEN Invalid
            ELSE sections_must_not_be_empty(input.sections)
      [] name = "metadata" -> Valid(<<>>)

\* pydantic validates the fields in order; a field that validates is added
\* to `values`, one that does not is recorded as an error and left out.
RECURSIVE Script_validate(_, _, _, _)
Script_validate(input, i, values, errors) ==
    IF i > Len(ScriptFields)
    THEN IF errors = {} THEN Valid(values) ELSE Invalid
    ELSE LET name == ScriptFields[i]
             r == Script_field(name, input, values)
         IN  IF r.ok
             THEN Script_validate(input, i + 1, values @@ (name :> r.value), errors)
             ELSE Script_validate(input, i + 1, values, errors \cup {name})

\* Script(**input)
Script(input) == Script_validate(input, 1, <<>>, {})

-----------------------------------------------------------------------------
(* Persistence service (contract of section 4.7): single-row operations *)

db_create_episode(d, id, title, now) ==
    d @@ (id :> [ title |-> title,
                  status |-> QUEUED,
                  created_at |-> Some(now),
                  generation_completed_at |-> None,
                  script |-> None,
                  audio_path |-> None,
                  video_path |-> None,
                  duration_seconds |-> None,
                  error_message |-> None ])

db_get_episode(d, id) ==
    IF id \in DOMAIN d THEN Some(d[id]) ELSE None

update_episode_status(d, id, st) ==
    [d EXCEPT ![id].status = st]

update_episode_script(d, id, script) ==
    [d EXCEPT ![id].script = Some(script)]

complete_episode(d, id, audio_path, video_path, duration_seconds, now) ==
    [d EXCEPT ![id].status = COMPLETED,
              ![id].audio_path = Some(audio_path),
              ![id].video_path = Some(video_path),
              ![id].duration_seconds = Some(duration_seconds),
              ![id].generation_completed_at = Some(now)]

fail_episode(d, id, error_message) ==
    [d EXCEPT ![id].status = FAILED,
              ![id].error_message = Some(error_message)]

-----------------------------------------------------------------------------
(* The Script, Speech and Video clients (contracts of sections 4.4 to 4.6) *)

\* generate_script returns a dict; of its keys only the duration figures
\* matter here.  It may carry the key main.py reads ("total_duration") or
\* not; a dict shaped like models.Script carries "total_duration_seconds".
ScriptResults ==
    { ("total_duration" :> 600),
      ("total_duration_seconds" :> 900) }

\* generate_audio and create_video return the path of the file they wrote,
\* one file per episode under the audio and the video output directory.
audio_file(id) == << "/data/audio", id >>
video_file(id) == << "/data/video", id >>

-----------------------------------------------------------------------------
(* main.py: state after startup *)

EpisodeIds == 1..(MaxEpisodes + 1)

NoResponse ==
    [endpoint |-> "none", id |-> 0, known |-> FALSE, raised |-> FALSE,
     code |-> 0, body |-> None]

IdleStatus == [pc |-> "idle", services |-> <<>>, outcomes |-> <<>>]

Init ==
    /\ db = <<>>
    /\ task = <<>>
    /\ calls = <<>>
    /\ files = {}
    /\ clock = 1
    /\ resp = NoResponse
    /\ status = IdleStatus
    /\ arg = None
    /\ ret = None
    /\ timers = <<>>
    /\ log = <<>>

-----------------------------------------------------------------------------
(* main.py: POST /episodes *)

\* Titles a client may send.
TitleSamples ==
    { <<>>, << " " >>, << "a" >>, << " ", "a", " " >> }

\* The EpisodeResponse returned by create_episode: status is the literal
\* GenerationStatus.QUEUED, created_at the stored row's.
create_episode_response(id, episode) ==
    [ id |-> id,
      title |-> episode.title,
      status |-> QUEUED,
      created_at |-> episode.created_at ]

\* background_tasks.add_task(generate_episode_content, episode.id, request)
add_task(id) ==
    /\ task' = task @@ (id :> [ pc |-> "scheduled",
                                script |-> None,
                                audio_path |-> None,
                                video_path |-> None,
                                exc |-> None ])
    /\ calls' = calls @@ (id :> <<>>)

create_episode ==
    /\ \E raw \in TitleSamples :
         LET title == EpisodeRequest_title(raw)
         IN  \/ \* request validation fails: FastAPI answers 422, handler not run
                /\ ~title.ok
                /\ resp' = [endpoint |-> "post", id |-> 0, known |-> FALSE,
                            raised |-> FALSE, code |-> 422, body |-> None]
                /\ UNCHANGED <<db, task, calls, clock>>
             \/ \* db_service.create_episode returns the new row
                /\ title.ok
                /\ Cardinality(DOMAIN db) < MaxEpisodes
                /\ LET id == Cardinality(DOMAIN db) + 1
                       d == db_create_episode(db, id, title.value, clock)
                   IN  /\ db' = d
                       /\ clock' = clock + 1
                       /\ add_task(id)
                       /\ resp' = [endpoint |-> "post", id |-> id, known |-> FALSE,
                                   raised |-> FALSE, code |-> 200,
                                   body |-> Some(create_episode_response(id, d[id]))]
             \/ \* db_service.create_episode raises: HTTPException(500)
                /\ title.ok
                /\ \E e \in Raises("create_episode") :
                     resp' = [endpoint |-> "post", id |-> 0, known |-> FALSE,
                              raised |-> TRUE, code |-> 500,
                              body |-> Some(str_e(e))]
                /\ UNCHANGED <<db, task, calls, clock>>
    /\ UNCHANGED <<files, status, arg, ret, timers, log>>

-----------------------------------------------------------------------------
(* main.py: GET /episodes/{episode_id} *)

\* The outcome of an awaited call: the value it returned (result(o)), or the
\* exception it raised.
Returned(v) == [raised |-> FALSE, value |-> Some(v), exc |-> None]
Raised(e) == [raised |-> TRUE, value |-> None, exc |-> e]
result(o) == o.value[1]

\* Variant: a row the pipeline has not touched yet is treated as absent.
get_episode_response_hides_queued(id, lookup) ==
    IF lookup.raised
    THEN [code |-> 500, body |-> Some(str_e(lookup.exc))]
    ELSE IF result(lookup) = None \/ result(lookup)[1].status = QUEUED
    THEN [code |-> 404, body |-> Some("Episode not found")]
    ELSE [code |-> 200, body |-> Some([id |-> id, status |-> result(lookup)[1].status])]

\* Variant: no check for an absent row; the projection falls back to an
\* empty, default-shaped body.
get_episode_response_default_body(id, lookup) ==
    IF lookup.raised
    THEN [code |-> 500, body |-> Some(str_e(lookup.exc))]
    ELSE IF result(lookup) = None
    THEN [code |-> 200, body |-> Some([id |-> id, status |-> DRAFT])]
    ELSE [code |-> 200, body |-> Some([id |-> id, status |-> result(lookup)[1].status])]

\* The handler's answer given the lookup's outcome: 404 for an absent row,
\* the projection of the row otherwise; GenerationStatus(episode.status)
\* raises ValueError for a text outside the enumeration; any exception other
\* than the 404 becomes a 500 carrying its message.
get_episode_response(id, lookup) ==
    IF lookup.raised
    THEN [code |-> 500, body |-> Some(str_e(lookup.exc))]
    ELSE IF result(lookup) = None
    THEN [code |-> 404, body |-> Some("Episode not found")]
    ELSE LET episode == result(lookup)[1]
         IN  IF episode.status \notin GenerationStatus
             THEN [code |-> 500, body |-> Some("not a valid GenerationStatus")]
             ELSE [code |-> 200,
                   body |-> Some([ id |-> id,
                                   title |-> episode.title,
                                   status |-> episode.status,
                                   created_at |-> episode.created_at,
                                   completed_at |-> episode.generation_completed_at,
                                   audio_path |-> episode.audio_path,
                                   video_path |-> episode.video_path,
                                   duration_seconds |-> episode.duration_seconds,
                                   error_message |-> episode.error_message ])]

get_episode ==
    /\ \E id \in EpisodeIds :
         \E lookup \in { Returned(db_get_episode(db, id)) }
                        \cup { Raised(e) : e \in Raises("get_episode") } :
           LET r == get_episode_response(id, lookup)
           IN  resp' = [endpoint |-> "get", id |-> id, known |-> id \in DOMAIN db,
                        raised |-> lookup.raised, code |-> r.code,
                        body |-> r.body]
    /\ UNCHANGED <<db, task, calls, files, clock, status, arg, ret, timers, log>>

-----------------------------------------------------------------------------
(* main.py: generate_episode_content, the background task of one episode *)

(***************************************************************************)
(* The task runs on the event loop and yields at every await.  task[id].pc *)
(* names the call the task is awaiting; one action per await models the    *)
(* call completing (returning or raising) and the task running on to its   *)
(* next await, where it issues the next call.  calls[id] records the calls *)
(* as they are issued, with the argument the properties speak about.       *)
(***************************************************************************)

\* resp holds the response of the step just taken, if that step was an HTTP
\* handler; a step of a background task sends none.
NoHttp == resp' = NoResponse

Call(id, op, a) ==
    calls' = [calls EXCEPT ![id] = Append(@, [op |-> op, arg |-> a])]

LastCall(id) == calls[id][Len(calls[id])]

Awaiting(id, op) == id \in DOMAIN task /\ task[id].pc = op

\* Variant: the status written after the script is the video stage's.
Step3Status_video == GENERATING_VIDEO

\* The status arguments of the three update_episode_status calls.
Step1Status == GENERATING_SCRIPT
Step3Status == GENERATING_AUDIO
Step5Status == GENERATING_VIDEO

\* dict.get(key, default)
dict_get(d, key, default) == IF key \in DOMAIN d THEN d[key] ELSE default

\* Variant: the duration read under the field name of models.Script.
complete_duration_seconds_key(script) ==
    dict_get(script, "total_duration_seconds", 0)

\* duration_seconds=script.get("total_duration", 0)
complete_duration(script) == dict_get(script, "total_duration", 0)

\* Variant: the failed call is issued again instead of failing the episode.
except_Exception_retry(id, e) ==
    /\ task' = [task EXCEPT ![id].exc = Some(e)]
    /\ Call(id, LastCall(id).op, LastCall(id).arg)

\* `except Exception as e:` -- the exception raised by the awaited call is
\* bound to e and the task issues fail_episode(episode_id, str(e)).
except_Exception(id, e) ==
    /\ task' = [task EXCEPT ![id].exc = Some(e), ![id].pc = "fail_episode"]
    /\ Call(id, "fail_episode", str_e(e))

\* The task starts: it issues update_episode_status(GENERATING_SCRIPT).
StartTask(id) ==
    /\ Awaiting(id, "scheduled")
    /\ task' = [task EXCEPT ![id].pc = "status_script"]
    /\ Call(id, "update_episode_status", Step1Status)
    /\ NoHttp /\ UNCHANGED <<db, files, clock, status, arg, ret, timers, log>>

\* update_episode_status(GENERATING_SCRIPT) completes; next generate_script.
StatusScriptDone(id) ==
    /\ Awaiting(id, "status_script")
    /\ \/ /\ db' = update_episode_status(db, id, LastCall(id).arg)
          /\ task' = [task EXCEPT ![id].pc = "generate_script"]
          /\ Call(id, "generate_script", "")
       \/ /\ \E e \in WriteRaises("update_episode_status") : except_Exception(id, e)
          /\ UNCHANGED db
    /\ NoHttp /\ UNCHANGED <<files, clock, status, arg, ret, timers, log>>

\* generate_script completes; next update_episode_status(GENERATING_AUDIO).
GenerateScriptDone(id) ==
    /\ Awaiting(id, "generate_script")
    /\ \/ \E script \in ScriptResults :
            /\ task' = [task EXCEPT ![id].script = Some(script),
                                    ![id].pc = "status_audio"]
            /\ Call(id, "update_episode_status", Step3Status)
       \/ \E e \in Raises("generate_script") : except_Exception(id, e)
    /\ NoHttp /\ UNCHANGED <<db, files, clock, status, arg, ret, timers, log>>

\* update_episode_status(GENERATING_AUDIO) completes; next update_episode_script.
StatusAudioDone(id) ==
    /\ Awaiting(id, "status_audio")
    /\ \/ /\ db' = update_episode_status(db, id, LastCall(id).arg)
          /\ task' = [task EXCEPT ![id].pc = "update_script"]
          /\ Call(id, "update_episode_script", task[id].script[1])
       \/ /\ \E e \in WriteRaises("update_episode_status") : except_Exception(id, e)
          /\ UNCHANGED db
    /\ NoHttp /\ UNCHANGED <<files, clock, status, arg, ret, timers, log>>

\* update_episode_script completes; next generate_audio.
UpdateScriptDone(id) ==
    /\ Awaiting(id, "update_script")
    /\ \/ /\ db' = update_episode_script(db, id, LastCall(id).arg)
          /\ task' = [task EXCEPT ![id].pc = "generate_audio"]
          /\ Call(id, "generate_audio", "")
       \/ /\ \E e \in WriteRaises("update_episode_script") : except_Exception(id, e)
          /\ UNCHANGED db
    /\ NoHttp /\ UNCHANGED <<files, clock, status, arg, ret, timers, log>>

\* generate_audio completes, having written the audio file; next
\* update_episode_status(GENERATING_VIDEO).
GenerateAudioDone(id) ==
    /\ Awaiting(id, "generate_audio")
    /\ \/ LET path == audio_file(id)
          IN  /\ files' = files \cup {path}
              /\ task' = [task EXCEPT ![id].audio_path = Some(path),
                                      ![id].pc = "status_video"]
              /\ Call(id, "update_episode_status", Step5Status)
       \/ /\ \E e \in Raises("generate_audio") : except_Exception(id, e)
          /\ UNCHANGED files
    /\ NoHttp /\ UNCHANGED <<db, clock, status, arg, ret, timers, log>>

\* update_episode_status(GENERATING_VIDEO) completes; next create_video.
StatusVideoDone(id) ==
    /\ Awaiting(id, "status_video")
    /\ \/ /\ db' = update_episode_status(db, id, LastCall(id).arg)
          /\ task' = [task EXCEPT ![id].pc = "create_video"]
          /\ Call(id, "create_video", task[id].audio_path[1])
       \/ /\ \E e \in WriteRaises("update_episode_status") : except_Exception(id, e)
          /\ UNCHANGED db
    /\ NoHttp /\ UNCHANGED <<files, clock, status, arg, ret, timers, log>>

\* create_video completes, having written the video file; next
\* complete_episode with both paths and the script's duration figure.
CreateVideoDone(id) ==
    /\ Awaiting(id, "create_video")
    /\ \/ LET path == video_file(id)
          IN  /\ files' = files \cup {path}
              /\ task' = [task EXCEPT ![id].video_path = Some(path),
                                      ![id].pc = "complete_episode"]
              /\ Call(id, "complete_episode",
                      [ audio_path |-> task[id].audio_path[1],
                        video_path |-> path,
                        duration_seconds |->
                            complete_duration(task[id].script[1]) ])
       \/ /\ \E e \in Raises("create_video") : except_Exception(id, e)
          /\ UNCHANGED files
    /\ NoHttp /\ UNCHANGED <<db, clock, status, arg, ret, timers, log>>

\* complete_episode completes; the task returns.
CompleteEpisodeDone(id) ==
    /\ Awaiting(id, "complete_episode")
    /\ \/ /\ LET a == LastCall(id).arg
             IN  db' = complete_episode(db, id, a.audio_path, a.video_path,
                                        a.duration_seconds, clock)
          /\ task' = [task EXCEPT ![id].pc = "done"]
          /\ UNCHANGED calls
       \/ /\ \E e \in WriteRaises("complete_episode") : except_Exception(id, e)
          /\ UNCHANGED db
    /\ NoHttp /\ UNCHANGED <<files, clock, status, arg, ret, timers, log>>

\* Variant: the failure is written to every episode that is not finished
\* yet, not only to the task's own.
FailEpisodeDone_every_episode(id) ==
    /\ Awaiting(id, "fail_episode")
    /\ db' = [j \in DOMAIN db |->
                IF j = id \/ db[j].status \notin { COMPLETED, FAILED }
                THEN fail_episode(db, j, LastCall(id).arg)[j]
                ELSE db[j]]
    /\ task' = [task EXCEPT ![id].pc = "done"]
    /\ NoHttp /\ UNCHANGED <<calls, files, clock, status, arg, ret, timers, log>>

\* fail_episode completes.  It is awaited inside the except block: if it
\* raises, nothing catches the exception and it leaves the task.
FailEpisodeDone(id) ==
    /\ Awaiting(id, "fail_episode")
    /\ \/ /\ db' = fail_episode(db, id, LastCall(id).arg)
          /\ task' = [task EXCEPT ![id].pc = "done"]
       \/ /\ task' = [task EXCEPT ![id].pc = "raised"]
          /\ UNCHANGED db
    /\ NoHttp /\ UNCHANGED <<calls, files, clock, status, arg, ret, timers, log>>

generate_episode_content(id) ==
    \/ StartTask(id)
    \/ StatusScriptDone(id)
    \/ GenerateScriptDone(id)
    \/ StatusAudioDone(id)
    \/ UpdateScriptDone(id)
    \/ GenerateAudioDone(id)
    \/ StatusVideoDone(id)
    \/ CreateVideoDone(id)
    \/ CompleteEpisodeDone(id)
    \/ FailEpisodeDone(id)

-----------------------------------------------------------------------------
(* The service: requests and background tasks interleave at awaits *)

Next ==
    \/ create_episode
    \/ get_episode
    \/ \E id \in EpisodeIds : generate_episode_content(id)

Spec == Init /\ [][Next]_vars

\* The background tasks alone, with the requests that create them: GET
\* requests read the database and change nothing the tasks see.
NextPipeline ==
    \/ create_episode
    \/ \E id \in EpisodeIds : generate_episode_content(id)

SpecPipeline == Init /\ [][NextPipeline]_vars

-----------------------------------------------------------------------------
(* main.py: GET /status *)

\* The probes in the order in which service_status runs them.
Components == << "ollama", "database", "tts" >>

\* What a health_check may return, and what it may raise.
HealthDetails == { "up", "degraded", "starting" }
HealthOutcomes(c) ==
    { Returned(d) : d \in HealthDetails } \cup { Raised(e) : e \in Raises(c) }

\* One try/except block of service_status: the entry written for a probe.
status_entry(outcome) ==
    IF outcome.raised
    THEN [status |-> "unhealthy", error |-> str_e(outcome.exc)]
    ELSE [status |-> "healthy", details |-> result(outcome)]

\* Variant: one try block around the three probes, so that after the first
\* failure no further entry is written.
probe_one_try_block(st, c, outcome) ==
    IF \E k \in DOMAIN st.outcomes : st.outcomes[k].raised
    THEN st
    ELSE [ pc |-> st.pc,
           services |-> st.services @@ (c :> status_entry(outcome)),
           outcomes |-> st.outcomes @@ (c :> outcome) ]

\* status["services"][c] = entry; the blocks that follow still run.
probe(st, c, outcome) ==
    [ pc |-> st.pc,
      services |-> st.services @@ (c :> status_entry(outcome)),
      outcomes |-> st.outcomes @@ (c :> outcome) ]

\* The request arrives: the status dict is created with no entries and the
\* handler awaits ollama_service.health_check().
StatusRequest ==
    /\ status.pc = "idle"
    /\ status' = [pc |-> "ollama", services |-> <<>>, outcomes |-> <<>>]
    /\ NoHttp
    /\ UNCHANGED <<db, task, calls, files, clock, arg, ret, timers, log>>

\* ollama's health_check completes; the handler awaits db_service.health_check().
StatusOllamaDone ==
    /\ status.pc = "ollama"
    /\ \E o \in HealthOutcomes("ollama") :
         status' = [probe(status, "ollama", o) EXCEPT !.pc = "database"]
    /\ NoHttp
    /\ UNCHANGED <<db, task, calls, files, clock, arg, ret, timers, log>>

\* The database's health_check completes; tts_service.health_check() is a
\* plain call, made in the same step; the handler returns the status dict.
StatusDatabaseDone ==
    /\ status.pc = "database"
    /\ \E o \in HealthOutcomes("database"), t \in HealthOutcomes("tts") :
         LET st == probe(probe(status, "database", o), "tts", t)
         IN  /\ status' = [st EXCEPT !.pc = "idle"]
             /\ resp' = [endpoint |-> "status", id |-> 0, known |-> FALSE,
                         raised |-> FALSE, code |-> 200,
                         body |-> Some(st.services)]
    /\ UNCHANGED <<db, task, calls, files, clock, arg, ret, timers, log>>

service_status ==
    \/ StatusRequest
    \/ StatusOllamaDone
    \/ StatusDatabaseDone

SpecStatus == Init /\ [][service_status]_vars

-----------------------------------------------------------------------------
(* Validation of EpisodeRequest.title over titles of every interesting length *)

\* A title of `lead` spaces, a body of `core` characters that starts and
\* ends with a letter (with a space inside when it is long enough), and
\* `trail` spaces.
MaxPad == 2

title_of(lead, core, trail) ==
    [i \in 1..lead |-> " "]
    \o [i \in 1..core |-> IF i = 2 /\ core > 2 THEN " " ELSE "a"]
    \o [i \in 1..trail |-> " "]

CoreLengths ==
    { 0, 1, 2, 3 } \cup
    { n \in (TitleMaxLength - MaxPad - 1)..(TitleMaxLength + 1) : n >= 0 }

TitleInputs ==
    { title_of(l, c, t) : l \in 0..MaxPad, c \in CoreLengths, t \in 0..MaxPad }

InitTitle ==
    /\ db = <<>> /\ task = <<>> /\ calls = <<>> /\ files = {} /\ clock = 1
    /\ resp = NoResponse /\ status = IdleStatus
    /\ timers = <<>> /\ log = <<>>
    /\ arg \in { Some(v) : v \in TitleInputs }
    /\ ret = None

ValidateTitle ==
    /\ ret = None
    /\ ret' = Some(EpisodeRequest_title(arg[1]))
    /\ UNCHANGED <<db, task, calls, files, clock, resp, status, arg, timers, log>>

SpecTitle == InitTitle /\ [][ValidateTitle]_vars

-----------------------------------------------------------------------------
(* Construction of Script over section lists and declared totals *)

MaxSections == 2

SectionDurations == { 1, 45, 100 }

SectionLists ==
    UNION { [1..n -> SectionDurations] : n \in 1..MaxSections }

\* Declared totals around the sum of the sections, on both sides of the
\* tolerance.
TotalOffsets ==
    { -(DurationTolerance + 1), -DurationTolerance, 0,
      DurationTolerance, DurationTolerance + 1 }

ScriptInputs ==
    { [ title |-> "t", total_duration_seconds |-> sum(secs) + d, sections |-> secs ] :
        secs \in SectionLists, d \in TotalOffsets }

InitScript ==
    /\ db = <<>> /\ task = <<>> /\ calls = <<>> /\ files = {} /\ clock = 1
    /\ resp = NoResponse /\ status = IdleStatus
    /\ timers = <<>> /\ log = <<>>
    /\ arg \in { Some(v) : v \in ScriptInputs }
    /\ ret = None

ConstructScript ==
    /\ ret = None
    /\ ret' = Some(Script(arg[1]))
    /\ UNCHANGED <<db, task, calls, files, clock, resp, status, arg, timers, log>>

SpecScript == InitScript /\ [][ConstructScript]_vars

-----------------------------------------------------------------------------
(* Properties of the background pipeline *)

Ops(id) == [i \in 1..Len(calls[id]) |-> calls[id][i].op]

Invoked(id, op) == \E i \in 1..Len(calls[id]) : calls[id][i].op = op

\* The call of `op` raised: the except block's fail_episode follows it.
RaisedIn(id, op) ==
    \E i \in 1..(Len(calls[id]) - 1) :
        calls[id][i].op = op /\ calls[id][i + 1].op = "fail_episode"

\* The task is over: it returned, or an exception left it.
Finished(id) == task[id].pc \in { "done", "raised" }

\* C1: whenever generate_script raises, the Speech and Video clients are
\* never invoked for the episode, and once the task is over the stored
\* status is `failed` with a non-empty error_message.
C1_ScriptFailureRecorded ==
    \A id \in DOMAIN task :
        RaisedIn(id, "generate_script") =>
            /\ ~Invoked(id, "generate_audio")
            /\ ~Invoked(id, "create_video")
            /\ Finished(id) =>
                 /\ db[id].status = FAILED
                 /\ db[id].error_message # None
                 /\ db[id].error_message # Some("")

\* The duration figure the script declares under the key the pipeline
\* reads, or 0 when it declares none.
DeclaredTotal(script) ==
    IF "total_duration" \in DOMAIN script THEN script["total_duration"] ELSE 0

C3_FailureCaptured ==
    \A id \in DOMAIN task :
        /\ task[id].pc # "raised"
        /\ (Finished(id) /\ task[id].exc # None) =>
               /\ db[id].status = FAILED
               /\ db[id].error_message = Some(str_e(task[id].exc[1]))

-----------------------------------------------------------------------------
(* Properties of the episode endpoints *)

GetAnswered == resp.endpoint = "get"

\* The part of C4 and of its amendment about POST and about deletion: a
\* successful POST answers `queued` with created_at set and its episode is
\* stored; no step removes a stored episode.
PostAnswersQueued ==
    (resp.endpoint = "post" /\ resp.code = 200) =>
        /\ resp.id \in DOMAIN db
        /\ resp.body[1].id = resp.id
        /\ resp.body[1].status = QUEUED
        /\ resp.body[1].created_at # None
        /\ resp.body[1].created_at = db[resp.id].created_at

NothingRemoved == DOMAIN db \subseteq DOMAIN db'

\* C4 as stated: a successful POST answers `queued` with created_at set;
\* every later GET of the created id, wherever the pipeline stands, finds
\* the episode; no step removes an episode.
C4_CreatedEpisodeFound ==
    /\ [](PostAnswersQueued /\ ((GetAnswered /\ resp.known) => resp.code = 200))
    /\ [][NothingRemoved]_vars

\* C4 as amended: a GET of a created id never answers 404; it answers with
\* the stored episode (its current status, timestamps, paths, duration and
\* error message) whenever the persistence lookup returns, and with 500
\* exactly when the lookup itself raises.
C4_CreatedEpisodeNever404 ==
    /\ [](/\ PostAnswersQueued
          /\ (GetAnswered /\ resp.known) =>
                /\ resp.code # 404
                /\ resp.code = (IF resp.raised THEN 500 ELSE 200)
                /\ resp.code = 200 =>
                     /\ resp.body[1].id = resp.id
                     /\ resp.body[1].status = db[resp.id].status
                     /\ resp.body[1].created_at = db[resp.id].created_at
                     /\ resp.body[1].audio_path = db[resp.id].audio_path
                     /\ resp.body[1].video_path = db[resp.id].video_path
                     /\ resp.body[1].duration_seconds = db[resp.id].duration_seconds
                     /\ resp.body[1].error_message = db[resp.id].error_message)
    /\ [][NothingRemoved]_vars

\* A GET finds an episode at each stage: not started, mid-pipeline, failed.
C4_Witness ==
    /\ GetAnswered /\ resp.known /\ resp.code = 200
    /\ resp.body[1].status = GENERATING_AUDIO
    /\ \E i \in DOMAIN db : i # resp.id /\ db[i].status = QUEUED
                           /\ task[i].pc = "scheduled"

\* C5 as stated: a GET of an id that is no created episode's answers 404,
\* never 500 and never a success body.
C5_UnknownIdIs404 ==
    (GetAnswered /\ ~resp.known) => resp.code = 404

\* C5 as amended: a GET of an id that is no created episode's never answers
\* with a success body; it answers 404 whenever the persistence lookup
\* returns, and 500 exactly when the lookup itself raises.
C5_UnknownIdNeverFound ==
    (GetAnswered /\ ~resp.known) =>
        /\ resp.code # 200
        /\ resp.code = (IF resp.raised THEN 500 ELSE 404)

\* A GET of an unknown id answered 404 while another episode is stored.
C5_Witness ==
    /\ GetAnswered /\ ~resp.known /\ resp.code = 404
    /\ resp.id \notin DOMAIN db
    /\ DOMAIN db # {}

-----------------------------------------------------------------------------
(* Properties of GET /status *)

ComponentNames == { Components[i] : i \in 1..Len(Components) }

\* The entry the response must carry for a probe with outcome o.
EntryReports(entry, o) ==
    IF o.raised
    THEN /\ DOMAIN entry = { "status", "error" }
         /\ entry.status = "unhealthy"
         /\ entry.error = str_e(o.exc)
    ELSE /\ DOMAIN entry = { "status", "details" }
         /\ entry.status = "healthy"
         /\ entry.details = result(o)

\* C6: GET /status always answers 200 with exactly the entries ollama,
\* database and tts; whatever the outcomes of the three health checks, each
\* entry reports its own probe's outcome (unhealthy with its error message
\* if it raised, healthy with its details if it returned), and every probe
\* ran.
C6_StatusPerComponent ==
    /\ (status.pc = "database") => DOMAIN status.outcomes = { "ollama" }
    /\ (resp.endpoint = "status") =>
          /\ resp.code = 200
          /\ DOMAIN resp.body[1] = ComponentNames
          /\ DOMAIN status.outcomes = ComponentNames
          /\ \A c \in ComponentNames :
                EntryReports(resp.body[1][c], status.outcomes[c])

\* Exactly the first probe raised; the other two report healthy.
C6_Witness ==
    /\ resp.endpoint = "status"
    /\ status.outcomes["ollama"].raised
    /\ ~status.outcomes["database"].raised
    /\ ~status.outcomes["tts"].raised
    /\ resp.body[1]["tts"].status = "healthy"

-----------------------------------------------------------------------------
(* Properties of the validators *)

\* C7: a Script whose section durations sum to S and whose declared total
\* is T is accepted when |T - S| <= 30 and rejected when |T - S| > 30
\* (section lists here are non-empty with durations >= 1).
C7_ToleranceEnforced ==
    ret # None =>
        LET T == arg[1].total_duration_seconds
            S == sum(arg[1].sections)
        IN  ret[1].ok <=> (abs(T - S) <= 30)

\* The title with its leading and its trailing whitespace removed, computed
\* from the two ends.
RECURSIVE DropLeading(_)
DropLeading(v) ==
    IF v # <<>> /\ v[1] \in Whitespace THEN DropLeading(Tail(v)) ELSE v

RECURSIVE DropTrailing(_)
DropTrailing(v) ==
    IF v # <<>> /\ v[Len(v)] \in Whitespace
    THEN DropTrailing(SubSeq(v, 1, Len(v) - 1))
    ELSE v

Trimmed(v) == DropTrailing(DropLeading(v))

\* C8 as stated: a title is accepted exactly when, after trimming, it has
\* between 1 and 500 characters; the title carried forward is the trimmed
\* one.
C8_TrimmedLengthDecides ==
    ret # None =>
        LET t == Trimmed(arg[1])
        IN  /\ ret[1].ok <=> (Len(t) >= 1 /\ Len(t) <= 500)
            /\ ret[1].ok => ret[1].value = t

\* C8 as amended: a title is accepted exactly when it has between 1 and 500
\* characters as received and is not empty after trimming; the title
\* carried forward is the trimmed one; a title of whitespace only is
\* rejected.
C8_ReceivedLengthDecides ==
    ret # None =>
        LET v == arg[1]
            t == Trimmed(v)
        IN  /\ ret[1].ok <=> (Len(v) >= 1 /\ Len(v) <= 500 /\ Len(t) >= 1)
            /\ ret[1].ok => ret[1].value = t
            /\ (\A i \in 1..Len(v) : v[i] \in Whitespace) => ~ret[1].ok

\* A title of 500 characters as received, padded on both sides, is accepted
\* and carried forward shorter than received.
C8_Witness ==
    /\ ret # None /\ ret[1].ok
    /\ Len(arg[1]) = 500
    /\ arg[1][1] = " " /\ arg[1][500] = " "
    /\ Len(ret[1].value) = 498

-----------------------------------------------------------------------------
(* Properties of the pipeline's order *)

NonTerminal ==
    { QUEUED, GENERATING_SCRIPT, GENERATING_AUDIO, GENERATING_VIDEO }

Edges ==
    { << QUEUED, GENERATING_SCRIPT >>,
      << GENERATING_SCRIPT, GENERATING_AUDIO >>,
      << GENERATING_AUDIO, GENERATING_VIDEO >>,
      << GENERATING_VIDEO, COMPLETED >> }
    \cup { << st, FAILED >> : st \in NonTerminal }

StatusStepsAlongEdges ==
    \A id \in DOMAIN db :
        db'[id].status # db[id].status =>
            << db[id].status, db'[id].status >> \in Edges

\* C9: every change of an episode's stored status is an edge of
\* queued -> generating_script -> generating_audio -> generating_video ->
\* completed, or an edge from a non-terminal state to failed; the stored
\* status is never cancelled or draft.
C9_StatusStateMachine ==
    /\ [](\A id \in DOMAIN db : db[id].status \notin { DRAFT, CANCELLED })
    /\ [][StatusStepsAlongEdges]_vars

\* One episode completed and another failed after its script was stored.
C9_Witness ==
    \E i, j \in DOMAIN db :
        /\ db[i].status = COMPLETED
        /\ db[j].status = FAILED /\ db[j].script # None

\* The calls of a pipeline in which nothing raises.
PipelineOrder ==
    << "update_episode_status", "generate_script", "update_episode_status",
       "update_episode_script", "generate_audio", "update_episode_status",
       "create_video", "complete_episode" >>

IsPrefix(p, q) == Len(p) <= Len(q) /\ p = SubSeq(q, 1, Len(p))

Count(id, op) == Cardinality({ i \in 1..Len(calls[id]) : calls[id][i].op = op })

CallsShortCircuit(id) ==
    LET ops == Ops(id)
        n == Len(ops)
    IN  IF task[id].exc = None
        THEN \* nothing raised: the calls follow the pipeline, fail_episode is not called
             IsPrefix(ops, PipelineOrder)
        ELSE \* a step raised: the calls are the pipeline up to that step, then
             \* fail_episode, once, with the exception's message, and nothing more
             /\ n >= 2
             /\ IsPrefix(SubSeq(ops, 1, n - 1), PipelineOrder)
             /\ ops[n] = "fail_episode"
             /\ calls[id][n].arg = str_e(task[id].exc[1])
             /\ Count(id, "fail_episode") = 1

SideEffectsKept ==
    /\ files \subseteq files'
    /\ \A id \in DOMAIN db :
          db[id].script # None => db'[id].script = db[id].script

\* C10: an exception at any step short-circuits the rest: after the failing
\* call the only call is fail_episode, exactly once, with the exception's
\* message; generate_script, generate_audio, create_video and
\* complete_episode are each called at most once per episode; a stored
\* script and the files produced stay in place.
C10_ShortCircuit ==
    /\ [](\A id \in DOMAIN task :
            /\ CallsShortCircuit(id)
            /\ \A op \in { "generate_script", "generate_audio", "create_video",
                           "complete_episode" } : Count(id, op) <= 1)
    /\ [][SideEffectsKept]_vars

\* create_video raised: the episode is failed, its script is still stored
\* and its audio file still on storage.
C10_Witness ==
    \E id \in DOMAIN task :
        /\ RaisedIn(id, "create_video")
        /\ task[id].pc = "done" /\ db[id].status = FAILED
        /\ db[id].script # None
        /\ audio_file(id) \in files

-----------------------------------------------------------------------------
(* core/logging.py: the operation timer *)

(***************************************************************************)
(* A use of the timer is a `with PerformanceTimer(...)` block, written out *)
(* or entered by the wrapper that performance_timer puts around a function.*)
(* timers[i] is the i-th use: how it was entered, the timer object's       *)
(* fields, and once the block is left how the timed code ended (run) and   *)
(* what the caller of the block observes (caller).  Uses overlap: an async *)
(* function suspends inside the block, and blocks nest.                    *)
(* A logged record carries the number of the use that logged it (`use`),   *)
(* which the real record does not; the properties use it to tell apart     *)
(* the records of two uses of one operation name.                          *)
(***************************************************************************)

\* Uses of the timer in one behaviour.
MaxTimers == 2

\* An exception raised inside a timed block: its class name, then its args.
exc_type_name(e) == e[1]
exc_args(e) == Tail(e)

TimedExceptions ==
    { << "TimeoutError" >>, << "ValueError", "bad value" >>,
      << "CancelledError" >> }

\* How the timed block ends.
BlockOutcomes == { Returned("value") } \cup { Raised(e) : e \in TimedExceptions }

\* The functions performance_timer decorates: `def` and `async def`.
\* co_coroutine is bit 0x80 of func.__code__.co_flags.
TimedFunctions ==
    { [name |-> "render", co_coroutine |-> FALSE],
      [name |-> "fetch", co_coroutine |-> TRUE] }

\* performance_timer(operation_name)(func): the wrapper it returns.
performance_timer(func) ==
    IF func.co_coroutine THEN "async_wrapper" ELSE "sync_wrapper"

\* What the block `return [await] func(*args, **kwargs)` of a wrapper sees,
\* given how the function's run ends.  async_wrapper awaits the coroutine
\* inside the block; sync_wrapper calls the function inside the block, and
\* calling a coroutine function only returns the coroutine object.
wrapper_block(wrapper, func, run) ==
    IF wrapper = "sync_wrapper" /\ func.co_coroutine
    THEN Returned("coroutine")
    ELSE run

\* PerformanceTimer.__init__
PerformanceTimer(operation_name) ==
    [operation_name |-> operation_name, start_time |-> None]

\* PerformanceTimer.__enter__: the timer object and the record logged.
PerformanceTimer_enter(self, now) ==
    [self |-> [self EXCEPT !.start_time = Some(now)],
     logged |-> << [event |-> "Operation started", level |-> "info",
                    operation |-> self.operation_name] >>]

\* Variant: the completion record is logged however the block is left, and
\* the failure record after it when an exception left the block.
PerformanceTimer_exit_always_completed(self, outcome, now) ==
    [logged |->
        << [event |-> "Operation completed", level |-> "info",
            operation |-> self.operation_name,
            duration_seconds |-> now - self.start_time[1]] >>
        \o (IF outcome.raised
            THEN << [event |-> "Operation failed", level |-> "error",
                     operation |-> self.operation_name,
                     duration_seconds |-> now - self.start_time[1],
                     error |-> str_e(exc_args(outcome.exc)),
                     error_type |-> exc_type_name(outcome.exc)] >>
            ELSE << >>),
     returns |-> None]

\* PerformanceTimer.__exit__(exc_type, exc_val, exc_tb): the records logged
\* and the value returned.  A datetime is always true, so `if
\* self.start_time` asks whether __enter__ ran.  The method has no return
\* statement: it returns None.
PerformanceTimer_exit(self, outcome, now) ==
    [logged |->
        IF self.start_time # None
        THEN IF ~outcome.raised
             THEN << [event |-> "Operation completed", level |-> "info",
                      operation |-> self.operation_name,
                      duration_seconds |-> now - self.start_time[1]] >>
             ELSE << [event |-> "Operation failed", level |-> "error",
                      operation |-> self.operation_name,
                      duration_seconds |-> now - self.start_time[1],
                      error |-> str_e(exc_args(outcome.exc)),
                      error_type |-> exc_type_name(outcome.exc)] >>
        ELSE << >>,
     returns |-> None]

\* The with statement: an exception that left the block is suppressed when
\* __exit__ returns a true value, and re-raised otherwise.
with_statement(outcome, exit_returns) ==
    IF outcome.raised /\ exit_returns # None
    THEN Returned("None")
    ELSE outcome

\* The records a use logs, each marked with the use.
LoggedBy(i, records) ==
    [k \in 1..Len(records) |-> [use |-> i, record |-> records[k]]]

\* A block is entered: `with PerformanceTimer(name):` written out, or the
\* call of a decorated function, whose wrapper enters
\* `with PerformanceTimer(f"{func.__name__}_{operation_name}"):`.
TimerEnter ==
    /\ Len(timers) < MaxTimers
    /\ \E use \in { [usage |-> "with", func |-> None] }
                    \cup { [usage |-> performance_timer(f), func |-> Some(f)] :
                           f \in TimedFunctions } :
         LET name == IF use.func = None
                     THEN << "scope" >>
                     ELSE << use.func[1].name, "op" >>
             entered == PerformanceTimer_enter(PerformanceTimer(name), clock)
         IN  /\ timers' = Append(timers,
                    [usage |-> use.usage, func |-> use.func,
                     self |-> entered.self, pc |-> "block",
                     run |-> None, caller |-> None])
             /\ log' = log \o LoggedBy(Len(timers) + 1, entered.logged)
    /\ clock' = clock + 1
    /\ UNCHANGED <<db, task, calls, files, resp, status, arg, ret>>

\* The block of use i is left, by its last statement or by an exception;
\* __exit__ runs and the with statement hands the outcome to the caller.
TimerExit(i) ==
    /\ i \in 1..Len(timers)
    /\ timers[i].pc = "block"
    /\ \E run \in BlockOutcomes :
         LET t == timers[i]
             outcome == IF t.func = None
                        THEN run
                        ELSE wrapper_block(t.usage, t.func[1], run)
             exited == PerformanceTimer_exit(t.self, outcome, clock)
         IN  /\ timers' = [timers EXCEPT
                    ![i].pc = "left",
                    ![i].run = Some(run),
                    ![i].caller = Some(with_statement(outcome, exited.returns))]
             /\ log' = log \o LoggedBy(i, exited.logged)
    /\ clock' = clock + 1
    /\ UNCHANGED <<db, task, calls, files, resp, status, arg, ret>>

NextTimer == TimerEnter \/ \E i \in 1..MaxTimers : TimerExit(i)

SpecTimer == Init /\ [][NextTimer]_vars

-----------------------------------------------------------------------------
(* Operation timer: properties *)

\* The records use i has logged, in the order it logged them.
RecordsOf(i) ==
    LET mine == SelectSeq(log, LAMBDA r : r.use = i)
    IN  [k \in 1..Len(mine) |-> mine[k].record]

\* C11: every use of the operation timer (a PerformanceTimer block, or a
\* sync or async function decorated with performance_timer) logs
\* "Operation started" on entry and nothing more while the block runs; once
\* the block is left exactly one more record follows it: "Operation
\* completed" when the timed code ended normally, "Operation failed" with
\* the exception's message and class name when it raised, and the caller
\* then receives that same exception.
C11_OneRecordPerExit ==
    \A i \in 1..Len(timers) :
        LET t == timers[i]
            r == RecordsOf(i)
        IN  /\ Len(r) >= 1
            /\ r[1].event = "Operation started"
            /\ r[1].operation = t.self.operation_name
            /\ t.pc = "block" => Len(r) = 1
            /\ t.pc = "left" =>
                 /\ Len(r) = 2
                 /\ r[2].operation = t.self.operation_name
                 /\ IF t.run[1].raised
                    THEN /\ r[2].event = "Operation failed"
                         /\ r[2].error = str_e(exc_args(t.run[1].exc))
                         /\ r[2].error_type = exc_type_name(t.run[1].exc)
                         /\ t.caller = Some(Raised(t.run[1].exc))
                    ELSE /\ r[2].event = "Operation completed"
                         /\ t.caller = t.run

\* Two overlapping uses have both been left: a decorated async function
\* that raised and a decorated sync function that returned after it.
C11_Witness ==
    /\ Len(timers) = 2
    /\ timers[1].usage = "async_wrapper" /\ timers[1].pc = "left"
    /\ timers[1].run[1].raised
    /\ timers[2].usage = "sync_wrapper" /\ timers[2].pc = "left"
    /\ ~timers[2].run[1].raised
    /\ Len(log) = 4 /\ log[2].use = 2 /\ log[3].use = 1

-----------------------------------------------------------------------------
(* main.py: the server process stops and is started again *)

(***************************************************************************)
(* The background tasks live on the event loop of the server process; the  *)
(* episodes live in the database.  When the process ends, every task that  *)
(* has not finished is gone with its locals; what it had written stays.    *)
(* A persistence call the task was awaiting when the process ended has not *)
(* been applied (section 4.7: each update is a single-row operation, in    *)
(* effect when the call returns).  The row of a lost task keeps, as        *)
(* `interrupted`, the status that was stored when the process ended; the   *)
(* field is history for the properties and is read by no action.           *)
(***************************************************************************)

InFlight(id) == task[id].pc \notin { "done", "raised", "abandoned" }

\* The process ends: the tasks in flight are lost.
process_exit(d, t) ==
    [id \in DOMAIN t |->
        IF t[id].pc \in { "done", "raised", "abandoned" }
        THEN t[id]
        ELSE [ pc |-> "abandoned",
               interrupted |-> d[id].status,
               script |-> None,
               audio_path |-> None,
               video_path |-> None,
               exc |-> None ]]

\* Variant: startup schedules the pipeline again for every episode a lost
\* task left behind.
lifespan_resumes(d, t) ==
    [id \in DOMAIN t |->
        IF t[id].pc = "abandoned"
        THEN [t[id] EXCEPT !.pc = "scheduled"]
        ELSE t[id]]

\* lifespan, up to its yield: the four clients are constructed and the
\* database is connected.  No episode is read and no task is scheduled:
\* the tasks after startup are the ones the process' end left.
lifespan(d, t) == t

\* The server stops, or is killed, and is started again.
Restart ==
    /\ task' = lifespan(db, process_exit(db, task))
    /\ NoHttp
    /\ UNCHANGED <<db, calls, files, clock, status, arg, ret, timers, log>>

NextRestart ==
    \/ create_episode
    \/ \E id \in EpisodeIds : generate_episode_content(id)
    \/ Restart

SpecRestart == Init /\ [][NextRestart]_vars

-----------------------------------------------------------------------------
(* Restart: properties *)

\* The pipeline of episode id was in flight when the server stopped.
Interrupted(id) == "interrupted" \in DOMAIN task[id]

\* C12: an episode whose pipeline was in flight when the server stopped is
\* abandoned: its stored status is the non-terminal status it had when the
\* server stopped (so neither `failed` nor `completed`), and from then on
\* no step changes its stored row, issues a call for it or runs its task,
\* whatever number of restarts follows.
C12_AbandonedNeverResumed ==
    /\ [](\A id \in DOMAIN task :
            Interrupted(id) =>
                /\ task[id].pc = "abandoned"
                /\ db[id].status = task[id].interrupted
                /\ db[id].status \in NonTerminal)
    /\ [][\A id \in DOMAIN task :
            /\ Interrupted(id) =>
                /\ db'[id] = db[id]
                /\ calls'[id] = calls[id]
                /\ task'[id] = task[id]
            /\ "interrupted" \in DOMAIN task'[id] =>
                /\ db'[id] = db[id]
                /\ calls'[id] = calls[id]]_vars

\* Episode 1 was generating its video when the server stopped; the server
\* was started again and has since completed episode 2.
C12_Witness ==
    /\ DOMAIN task = { 1, 2 }
    /\ Interrupted(1)
    /\ db[1].status = GENERATING_VIDEO
    /\ LastCall(1).op = "create_video"
    /\ task[2].pc = "done"
    /\ db[2].status = COMPLETED
    /\ db[2].created_at[1] > db[1].created_at[1]

-----------------------------------------------------------------------------
(* Pipelines of distinct episodes: properties *)

\* The step changes something of episode i: its stored row, its task or the
\* calls issued for it.
Touched(i) ==
    \/ db'[i] # db[i]
    \/ task'[i] # task[i]
    \/ calls'[i] # calls[i]

\* A step touches one episode at most; it removes none; a request that
\* creates an episode touches no other; an artifact that appears on storage
\* is a file of the episode whose task took the step.
OwnEpisodeOnly ==
    /\ DOMAIN task \subseteq DOMAIN task'
    /\ \A i \in DOMAIN task :
          Touched(i) =>
              /\ DOMAIN task' = DOMAIN task
              /\ \A j \in DOMAIN task \ {i} : ~Touched(j)
    /\ \A f \in files' \ files :
          \E i \in DOMAIN task :
              /\ task'[i] # task[i]
              /\ f \in { audio_file(i), video_file(i) }

\* The k-th call issued for episode id has returned normally: the task went
\* on to a call that is not the except block's, or, for the last call, the
\* task returned.
Applied(id, k) ==
    IF k < Len(calls[id])
    THEN calls[id][k + 1].op # "fail_episode"
    ELSE task[id].pc = "done"

\* What the call c writes to the database d for episode id, at time now.
WriteOf(d, id, c, now) ==
    CASE c.op = "update_episode_status" -> update_episode_status(d, id, c.arg)
      [] c.op = "update_episode_script" -> update_episode_script(d, id, c.arg)
      [] c.op = "complete_episode" ->
            complete_episode(d, id, c.arg.audio_path, c.arg.video_path,
                             c.arg.duration_seconds, now)
      [] c.op = "fail_episode" -> fail_episode(d, id, c.arg)
      [] OTHER -> d

\* The calls of episode id alone, replayed from call k on a database d.
RECURSIVE ReplayCalls(_, _, _)
ReplayCalls(id, d, k) ==
    IF k > Len(calls[id])
    THEN d
    ELSE ReplayCalls(id,
                     IF Applied(id, k) THEN WriteOf(d, id, calls[id][k], 0) ELSE d,
                     k + 1)

\* The fields of a stored row that the pipeline writes.
PipelineFields ==
    { "status", "script", "audio_path", "video_path", "duration_seconds",
      "error_message" }

Written(row) == [f \in PipelineFields |-> row[f]]

\* The stored state of episode id is what its own calls, with their own
\* outcomes, write to a database that holds that episode alone.
OwnOutcomesDecide(id) ==
    LET alone == db_create_episode(<<>>, id, db[id].title, db[id].created_at[1])
    IN  Written(db[id]) = Written(ReplayCalls(id, alone, 1)[id])

\* C13: pipelines of distinct episodes, interleaved at their awaits, do not
\* interfere: every step touches the row, the task and the calls of one
\* episode at most and adds only that episode's files; the status, script,
\* output paths and error message stored for an episode are at all times
\* what its own calls with their own outcomes write; and a task that has
\* not finished can take its next step whatever happened to the others.
C13_NoInterference ==
    /\ [](\A id \in DOMAIN task :
            /\ OwnOutcomesDecide(id)
            /\ ~Finished(id) => ENABLED generate_episode_content(id))
    /\ [][OwnEpisodeOnly]_vars

\* Episode 2 ran to completion while episode 1, whose audio generation
\* raised, was waiting in its except block; episode 1 was then failed.
C13_Witness ==
    /\ DOMAIN task = { 1, 2 }
    /\ RaisedIn(1, "generate_audio")
    /\ task[1].pc = "done" /\ db[1].status = FAILED
    /\ db[1].script # None /\ db[1].audio_path = None
    /\ task[2].pc = "done" /\ db[2].status = COMPLETED
    /\ db[2].error_message = None
    /\ files = { audio_file(2), video_file(2) }

=============================================================================
